---- MODULE Spec2Model ----
(***************************************************************************)
(* A model of feishu_client.py: the record schema (FieldsModel,            *)
(* RecordModel) and the table client (FeishuClient) over the transport of  *)
(* the vendor SDK.                                                         *)
(*                                                                         *)
(* Strings are ASCII here.  The five human-readable labels of the source   *)
(* are written in pinyin:                                                  *)
(*   "zhengzai chuangjian" for U+6B63 U+5728 U+521B U+5EFA  (configuring)  *)
(*   "chuangjian wancheng" for U+521B U+5EFA U+5B8C U+6210  (configured)   *)
(*   "shengxiao"           for U+751F U+6548                (effective)    *)
(*   "shixiao"             for U+5931 U+6548                (invalidated)  *)
(*   "jujue"               for U+62D2 U+7EDD                (rejected)     *)
(* Python's None is the string None below; no input string equals it.      *)
(***************************************************************************)
EXTENDS Integers, Sequences, FiniteSets, TLC

VARIABLES
    clock,                \* the wall clock, in milliseconds
    default_update_time,  \* FieldsModel.update_time's default, set when the class is defined
    kwargs,               \* schema: the keyword arguments of the last FieldsModel(...) call
    made,                 \* schema: what that call produced
    made_at,              \* schema: the clock when it was made
    wire,                 \* schema: the last wire record built from made
    parsed,               \* schema: what RecordModel(**wire) produced
    pc,                   \* client: "idle", or "query" inside query_record's loop
    op,                   \* client: the current (or last) operation
    args,                 \* client: its arguments
    page_token,           \* client: query_record's local page_token
    records,              \* client: query_record's local records
    calls,                \* transport: the requests of the current (or last) operation
    resps,                \* transport: the responses to them
    total,                \* store: how many records match the filter of the query
    outcome               \* client: what the last operation returned or raised

schemaVars == <<kwargs, made, made_at, wire, parsed>>
clientVars == <<pc, op, args, page_token, records, calls, resps, total, outcome>>
vars == <<clock, default_update_time, kwargs, made, made_at, wire, parsed,
          pc, op, args, page_token, records, calls, resps, total, outcome>>

\* ------------------------------------------------------------------ bounds

MaxClock == 2
MaxBatch == 2
MaxRequests == 4

\* ------------------------------------------------------------ Python values

None == "None"
Unset == [kind |-> "unset"]
Ok(v) == [kind |-> "return", value |-> v]
Raise(e) == [kind |-> "raise", exc |-> e]

Min(S) == CHOOSE m \in S : \A n \in S : m <= n

\* --------------------------------------------------------- the record schema

DisplayKeys == <<"configuring", "configured", "effective", "invalidated", "rejected">>

display_enum ==
    [k \in {DisplayKeys[i] : i \in 1..Len(DisplayKeys)} |->
        CASE k = "configuring" -> "zhengzai chuangjian"
          [] k = "configured"  -> "chuangjian wancheng"
          [] k = "effective"   -> "shengxiao"
          [] k = "invalidated" -> "shixiao"
          [] k = "rejected"    -> "jujue"]

Keys == DOMAIN display_enum
Labels == {display_enum[k] : k \in Keys}

\* a plausible slip: the loop compares v with the label alone
check_display_labels_only(v) ==
    LET hits == {i \in 1..Len(DisplayKeys) : v = display_enum[DisplayKeys[i]]}
    IN  IF hits = {} THEN Raise("ValueError") ELSE Ok(DisplayKeys[Min(hits)])

\* the validator of display: the first key, in the mapping's order, that v
\* equals or whose label v equals; ValueError when there is none
check_display(v) ==
    LET hits == {i \in 1..Len(DisplayKeys) :
                    v \in {DisplayKeys[i], display_enum[DisplayKeys[i]]}}
    IN  IF hits = {} THEN Raise("ValueError") ELSE Ok(DisplayKeys[Min(hits)])

Get(kw, name, default) == IF name \in DOMAIN kw THEN kw[name] ELSE default

\* FieldsModel(**kw): the validated fields, or pydantic's ValidationError
FieldsModel(kw) ==
    LET d == check_display(kw.display)
    IN  IF d.kind = "raise"
        THEN Raise("ValidationError")
        ELSE Ok([app_id      |-> kw.app_id,
                 name        |-> kw.name,
                 display     |-> d.value,
                 account     |-> Get(kw, "account", None),
                 update_time |-> Get(kw, "update_time", default_update_time),
                 remark      |-> Get(kw, "remark", None)])

\* a plausible slip: dict() is not overridden and display stays the key
FieldsModel_dict_keeps_key(f) == f

\* FieldsModel.dict(): every field, display as its label
FieldsModel_dict(f) == [f EXCEPT !.display = display_enum[f.display]]

\* a plausible slip: the record id is read under another name and stays None
RecordModel_drops_record_id(item) ==
    LET f == FieldsModel(item.fields)
    IN  IF f.kind = "raise"
        THEN Raise("ValidationError")
        ELSE Ok([fields |-> f.value, id |-> Get(item, "id", None), record_id |-> None])

\* RecordModel(**item): fields validated as a FieldsModel, the ids as given
RecordModel(item) ==
    LET f == FieldsModel(item.fields)
    IN  IF f.kind = "raise"
        THEN Raise("ValidationError")
        ELSE Ok([fields    |-> f.value,
                 id        |-> Get(item, "id", None),
                 record_id |-> Get(item, "record_id", None)])

\* ------------------------------------------------- inputs of the schema runs

DisplayInputs == Keys \cup Labels \cup {"", "Effective", "deleted"}
OptionalIds == {None, "", "rec1"}
ExplicitTimes == {1, 7}

KwInputs ==
    LET base == {[app_id |-> "cli_a", name |-> "n1", display |-> d] : d \in DisplayInputs}
        withAccount == base \cup {b @@ [account |-> a] : b \in base, a \in {"acct"}}
    IN  withAccount \cup {b @@ [update_time |-> t] : b \in withAccount, t \in ExplicitTimes}

\* ------------------------------------------------- the schema, step by step

SchemaInit ==
    /\ clock \in 0..1
    /\ default_update_time = clock
    /\ kwargs = Unset /\ made = Unset /\ made_at = 0 /\ wire = Unset /\ parsed = Unset
    /\ pc = "idle" /\ op = "none" /\ args = Unset /\ page_token = None
    /\ records = <<>> /\ calls = <<>> /\ resps = <<>> /\ total = 0 /\ outcome = Unset

Tick ==
    /\ clock < MaxClock
    /\ clock' = clock + 1
    /\ UNCHANGED <<default_update_time, schemaVars, clientVars>>

Construct ==
    \E kw \in KwInputs :
        /\ kwargs' = kw
        /\ made' = FieldsModel(kw)
        /\ made_at' = clock
        /\ wire' = Unset
        /\ parsed' = Unset
        /\ UNCHANGED <<clock, default_update_time, clientVars>>

ToWire ==
    /\ made.kind = "return"
    /\ \E i \in {None, "id1"}, r \in OptionalIds :
          wire' = [fields |-> FieldsModel_dict(made.value), id |-> i, record_id |-> r]
    /\ parsed' = Unset
    /\ UNCHANGED <<clock, default_update_time, kwargs, made, made_at, clientVars>>

FromWire ==
    /\ wire # Unset
    /\ parsed' = RecordModel(wire)
    /\ UNCHANGED <<clock, default_update_time, kwargs, made, made_at, wire, clientVars>>

SchemaNext == Tick \/ Construct \/ ToWire \/ FromWire

SpecSchema == SchemaInit /\ [][SchemaNext]_vars

\* ----------------------------------------------------------- the transport

PageSize == 500
AppToken == "app_token"
TableId == "table_id"

Truthy(s) == s # None /\ s # ""

\* the continuation token the store issues for the page that starts after
\* `off` records, and the offset the store reads back from a token
Tok(off) == "tok" \o ToString(off)
OffsetOf(tok) == CHOOSE o \in 0..(MaxRequests * PageSize) : Tok(o) = tok

\* record i of the store, in wire form
StoreItem(i) ==
    [fields    |-> [app_id      |-> "cli_a",
                    name        |-> "n" \o ToString(i),
                    display     |-> display_enum[DisplayKeys[(i % Len(DisplayKeys)) + 1]],
                    account     |-> None,
                    update_time |-> i,
                    remark      |-> None],
     id        |-> "id" \o ToString(i),
     record_id |-> "rec" \o ToString(i)]

\* what the list call may answer to req when n records match: a failure, or the
\* page the request asks for, with the next page's token, an empty one or none
ListResponses(req, n) ==
    LET off  == IF "page_token" \in DOMAIN req THEN OffsetOf(req.page_token) ELSE 0
        last == IF off + req.page_size < n THEN off + req.page_size ELSE n
        page == [i \in 1..(IF last > off THEN last - off ELSE 0) |-> StoreItem(off + i)]
        next == IF last > off THEN last ELSE off + 1
    IN  {[success |-> FALSE, code |-> 1254000, more |-> last < n]}
        \cup {[success |-> TRUE, more |-> last < n,
               data |-> [total |-> n, items |-> page] @@ t]
                : t \in {[page_token |-> Tok(next)], [page_token |-> ""], [x \in {} |-> 0]}}

\* what the log keeps of a response
Summary(resp) ==
    IF resp.success
    THEN [success |-> TRUE, more |-> resp.more,
          page_token |-> Get(resp.data, "page_token", None),
          count |-> Len(resp.data.items)]
    ELSE [success |-> FALSE, more |-> resp.more, page_token |-> None, count |-> 0]

WritePayloads == {"{records: a}", "{records: b}"}
WriteResponses ==
    {[success |-> FALSE, code |-> 1254000]}
    \cup {[success |-> TRUE, data |-> d] : d \in WritePayloads}

\* lark.JSON.marshal(data, indent=4): the payload as text
Marshal(data) == "json:" \o data

\* ------------------------------------------------------------- query_record

\* a plausible slip: the value goes into the filter as given
Filter_untranslated(key, value) ==
    Ok("CurrentValue.[" \o key \o "] = \"" \o value \o "\"")

\* the filter expression; for display the value is looked up in the mapping,
\* which raises KeyError for anything but a key
Filter(key, value) ==
    IF key = "display"
    THEN IF value \in Keys
         THEN Ok("CurrentValue.[" \o key \o "] = \"" \o display_enum[value] \o "\"")
         ELSE Raise("KeyError")
    ELSE Ok("CurrentValue.[" \o key \o "] = \"" \o value \o "\"")

\* a plausible slip: the token is never put on the request
ListRequest_without_token(filter, token) ==
    [api |-> "list", app_token |-> AppToken, table_id |-> TableId,
     filter |-> filter, page_size |-> PageSize]

\* the list request: the token is set only when there is one
ListRequest(filter, token) ==
    [api |-> "list", app_token |-> AppToken, table_id |-> TableId,
     filter |-> filter, page_size |-> PageSize]
    @@ (IF Truthy(token) THEN [page_token |-> token] ELSE [x \in {} |-> 0])

\* a plausible slip: a failed page ends the loop and the records so far are returned
ListFailed_returns_partial(recs) == Ok(recs)

\* a failed page: the error is logged and an Exception raised
ListFailed(recs) == Raise("Exception")

\* [RecordModel(**item) for item in json_data.get("items", [])]: the records,
\* or the ValidationError of the first item that is not one
ParseItems(data) ==
    LET items  == Get(data, "items", <<>>)
        parsed_items == [i \in 1..Len(items) |-> RecordModel(items[i])]
    IN  IF \E i \in 1..Len(items) : parsed_items[i].kind = "raise"
        THEN Raise("ValidationError")
        ELSE Ok([i \in 1..Len(items) |-> parsed_items[i].value])

\* a plausible slip: the page replaces the records instead of extending them
Accumulate_replaces(recs, data) ==
    IF data.total > 0
    THEN ParseItems(data)
    ELSE Ok(recs)

\* records += [...] when total > 0
Accumulate(recs, data) ==
    IF data.total > 0
    THEN LET p == ParseItems(data)
         IN  IF p.kind = "raise" THEN p ELSE Ok(recs \o p.value)
    ELSE Ok(recs)

QueryInputs ==
    {[key |-> "display", value |-> v] : v \in Keys \cup {"shengxiao"}}
    \cup {[key |-> "name", value |-> v] : v \in {"n1", "effective"}}

Totals == {0, 1, 500, 501, 1000, 1037}

\* query_record is entered: page_token = None, records = []
QueryStart ==
    /\ pc = "idle"
    /\ \E a \in QueryInputs : args' = a
    /\ total' \in Totals
    /\ op' = "query"
    /\ pc' = "build"
    /\ page_token' = None
    /\ records' = <<>>
    /\ calls' = <<>>
    /\ resps' = <<>>
    /\ outcome' = Unset
    /\ UNCHANGED <<clock, default_update_time, schemaVars>>

\* the head of the loop: the request is built and handed to the transport
QuerySend ==
    /\ pc = "build"
    /\ Len(calls) < MaxRequests
    /\ LET f == Filter(args.key, args.value)
       IN  IF f.kind = "raise"
           THEN /\ outcome' = f
                /\ pc' = "idle"
                /\ page_token' = None
                /\ records' = <<>>
                /\ calls' = calls
           ELSE /\ calls' = Append(calls, ListRequest(f.value, page_token))
                /\ pc' = "wait"
                /\ UNCHANGED <<outcome, page_token, records>>
    /\ UNCHANGED <<clock, default_update_time, schemaVars, op, args, resps, total>>

\* the transport answers: failure raises, success extends records and either
\* leaves the loop or goes round again
QueryRecv ==
    /\ pc = "wait"
    /\ \E resp \in ListResponses(calls[Len(calls)], total) :
          /\ resps' = Append(resps, Summary(resp))
          /\ IF ~resp.success
             THEN /\ outcome' = ListFailed(records)
                  /\ pc' = "idle"
                  /\ page_token' = None
                  /\ records' = <<>>
             ELSE LET token == Get(resp.data, "page_token", None)
                      recs  == Accumulate(records, resp.data)
                  IN  IF recs.kind = "raise"
                      THEN /\ outcome' = recs
                           /\ pc' = "idle"
                           /\ page_token' = None
                           /\ records' = <<>>
                      ELSE IF ~Truthy(token)
                      THEN /\ outcome' = recs
                           /\ pc' = "idle"
                           /\ page_token' = None
                           /\ records' = <<>>
                      ELSE /\ outcome' = outcome
                           /\ pc' = "build"
                           /\ page_token' = token
                           /\ records' = recs.value
    /\ UNCHANGED <<clock, default_update_time, schemaVars, op, args, calls, total>>

\* ------------------------------------------- add, update and delete records

BatchCreateRequest(recs) ==
    [api |-> "batch_create", app_token |-> AppToken, table_id |-> TableId,
     records |-> [i \in 1..Len(recs) |-> [fields |-> FieldsModel_dict(recs[i])]]]

BatchUpdateRequest(recs) ==
    [api |-> "batch_update", app_token |-> AppToken, table_id |-> TableId,
     records |-> [i \in 1..Len(recs) |->
                    [fields |-> FieldsModel_dict(recs[i].fields),
                     record_id |-> recs[i].record_id]]]

BatchDeleteRequest(recs) ==
    [api |-> "batch_delete", app_token |-> AppToken, table_id |-> TableId,
     records |-> [i \in 1..Len(recs) |-> recs[i].record_id]]

\* a plausible slip: the success flag is not looked at
WriteOutcome_ignores_failure(resp) ==
    Ok(Marshal(Get(resp, "data", "null")))

\* after a write call: an Exception for a failure, else the marshalled payload
WriteOutcome(resp) ==
    IF ~resp.success THEN Raise("Exception") ELSE Ok(Marshal(resp.data))

SeqsUpTo(S, n) == UNION {[1..k -> S] : k \in 0..n}

WriteKw ==
    {[app_id |-> "cli_a", name |-> "n1", display |-> "effective", update_time |-> 7],
     [app_id |-> "cli_b", name |-> "n2", display |-> "jujue", account |-> "acct"]}

FieldsPool == {FieldsModel(kw).value : kw \in WriteKw}
RecordPool == {RecordModel([fields |-> kw, record_id |-> r]).value :
                  kw \in WriteKw, r \in OptionalIds}

WriteDone(name, recs, req, resp) ==
    /\ op' = name
    /\ args' = recs
    /\ calls' = <<req>>
    /\ resps' = <<resp>>
    /\ outcome' = WriteOutcome(resp)
    /\ total' = 0
    /\ UNCHANGED <<clock, default_update_time, schemaVars, pc, page_token, records>>

add_record ==
    /\ pc = "idle"
    /\ \E recs \in SeqsUpTo(FieldsPool, MaxBatch), resp \in WriteResponses :
          WriteDone("add", recs, BatchCreateRequest(recs), resp)

update_record ==
    /\ pc = "idle"
    /\ \E recs \in SeqsUpTo(RecordPool, MaxBatch), resp \in WriteResponses :
          WriteDone("update", recs, BatchUpdateRequest(recs), resp)

delete_record ==
    /\ pc = "idle"
    /\ \E recs \in SeqsUpTo(RecordPool, MaxBatch), resp \in WriteResponses :
          WriteDone("delete", recs, BatchDeleteRequest(recs), resp)

\* ------------------------------------------------------------- the client

Init ==
    /\ clock = 0
    /\ default_update_time = 0
    /\ kwargs = Unset /\ made = Unset /\ made_at = 0 /\ wire = Unset /\ parsed = Unset
    /\ pc = "idle" /\ op = "none" /\ args = Unset /\ page_token = None
    /\ records = <<>> /\ calls = <<>> /\ resps = <<>> /\ total = 0 /\ outcome = Unset

Next ==
    \/ QueryStart
    \/ QuerySend
    \/ QueryRecv
    \/ add_record
    \/ update_record
    \/ delete_record

Spec == Init /\ [][Next]_vars

\* ------------------------------------------------------------------ claims

KeyOf(v) == CHOOSE k \in Keys : v = k \/ v = display_enum[k]

\* C1: constructing a FieldSet with display equal to one of the five keys or
\* one of the five labels stores the corresponding key; with any other string
\* the construction fails with a validation error and produces no FieldSet.
C1_DisplayNormalized ==
    made # Unset =>
        IF kwargs.display \in Keys \cup Labels
        THEN /\ made.kind = "return"
             /\ made.value.display = KeyOf(kwargs.display)
        ELSE made = Raise("ValidationError")

C1_Witness ==
    /\ made # Unset
    /\ kwargs.display = "shixiao"
    /\ made.kind = "return"
    /\ made.value.display = "invalidated"

\* C6: a valid FieldSet serialized with dict(), wrapped as the fields of a
\* wire record and read back as a RecordModel gives the same fields, display
\* stored as the key again after travelling as the label, and the id and
\* record_id of the wire record unchanged.
C6_WireRoundTrip ==
    parsed # Unset =>
        /\ wire.fields.display \in Labels
        /\ parsed.kind = "return"
        /\ parsed.value.fields = made.value
        /\ parsed.value.fields.display \in Keys
        /\ parsed.value.id = wire.id
        /\ parsed.value.record_id = wire.record_id

C6_Witness ==
    /\ parsed # Unset
    /\ kwargs.display = "jujue"
    /\ wire.record_id = "rec1"
    /\ wire.id = "id1"
    /\ parsed.kind = "return"
    /\ parsed.value.fields.display = "rejected"

\* C8: a FieldSet constructed without an explicit update_time carries the
\* clock value of the moment of its construction.
C8_DefaultIsConstructionTime ==
    (made # Unset /\ made.kind = "return" /\ "update_time" \notin DOMAIN kwargs)
        => made.value.update_time = made_at

QueryReturned == op = "query" /\ pc = "idle" /\ outcome.kind = "return"

\* the store served every page as the claim describes it: each response a
\* success, a token on every page but the last
Faithful ==
    \A i \in 1..Len(resps) :
        resps[i].success /\ (Truthy(resps[i].page_token) <=> resps[i].more)

CeilDiv(n, d) == (n + d - 1) \div d

AllOfStore(n) == [i \in 1..n |-> RecordModel(StoreItem(i)).value]

\* C2 as stated: against a store of N matching records served in pages of at
\* most 500 with a token on every page but the last, query_record issues
\* exactly ceil(N / 500) list requests and returns the N records in page
\* order, for every N including 0.
C2_PagesAsStated ==
    (QueryReturned /\ Faithful) =>
        /\ Len(calls) = CeilDiv(total, 500)
        /\ outcome.value = AllOfStore(total)

\* C2, amended: the same, with one list request when N = 0 (the loop always
\* asks for a first page): max(1, ceil(N / 500)) requests.
C2_Pages ==
    (QueryReturned /\ Faithful) =>
        /\ Len(calls) = IF total = 0 THEN 1 ELSE CeilDiv(total, 500)
        /\ outcome.value = AllOfStore(total)

C2_Witness ==
    /\ QueryReturned
    /\ Faithful
    /\ total = 1037
    /\ Len(calls) = 3
    /\ <<resps[1].count, resps[2].count, resps[3].count>> = <<500, 500, 37>>
    /\ Len(outcome.value) = 1037

LacksRecordId(recs) == \E i \in 1..Len(recs) : ~Truthy(recs[i].record_id)

\* C3: update_record and delete_record given a record whose record_id is
\* empty or absent fail with a validation error and issue no transport call.
C3_RejectsMissingRecordId ==
    (op \in {"update", "delete"} /\ LacksRecordId(args)) =>
        /\ outcome = Raise("ValidationError")
        /\ calls = <<>>

\* C4: a list response whose success flag is false, on any page, ends the
\* query with an error: nothing is returned of the records of the earlier
\* pages and no list request follows.
C4_FailedPageAborts ==
    op = "query" =>
        \A i \in 1..Len(resps) :
            ~resps[i].success =>
                /\ i = Len(resps)
                /\ Len(calls) = i
                /\ pc = "idle"
                /\ outcome = Raise("Exception")
                /\ records = <<>>

C4_Witness ==
    /\ op = "query"
    /\ Len(resps) = 2
    /\ resps[1].success /\ resps[1].count = 500
    /\ ~resps[2].success
    /\ outcome.kind = "raise"

\* C5: every list request of a query on display with a key as value carries
\* the filter CurrentValue.[display] = "<label of the key>"; a query on any
\* other key carries the value as given.
C5_FilterTranslation ==
    op = "query" =>
        \A i \in 1..Len(calls) :
            /\ (args.key = "display" /\ args.value \in Keys) =>
                  /\ calls[i].filter =
                        "CurrentValue.[display] = \"" \o display_enum[args.value] \o "\""
                  /\ calls[i].filter #
                        "CurrentValue.[display] = \"" \o args.value \o "\""
            /\ args.key # "display" =>
                  calls[i].filter =
                     "CurrentValue.[" \o args.key \o "] = \"" \o args.value \o "\""

C5_Witness ==
    /\ op = "query"
    /\ args = [key |-> "display", value |-> "effective"]
    /\ Len(calls) = 2
    /\ calls[2].filter = "CurrentValue.[display] = \"shengxiao\""

FieldsOf(a) == IF "fields" \in DOMAIN a THEN a.fields ELSE a

\* C7: in every batch-create request of add_record and every batch-update
\* request of update_record each record's display is the label of the key the
\* FieldSet stores, never the key.
C7_WireCarriesLabels ==
    op \in {"add", "update"} =>
        \A c \in 1..Len(calls) :
            /\ Len(calls[c].records) = Len(args)
            /\ \A i \in 1..Len(args) :
                  /\ calls[c].records[i].fields.display
                        = display_enum[FieldsOf(args[i]).display]
                  /\ calls[c].records[i].fields.display \in Labels
                  /\ calls[c].records[i].fields.display \notin Keys

C7_Witness ==
    /\ op = "update"
    /\ Len(args) = 2
    /\ args[1].fields.display = "rejected"
    /\ args[2].fields.display = "effective"
    /\ calls[1].records[1].fields.display = "jujue"
    /\ calls[1].records[2].fields.display = "shengxiao"

\* C9: a call of add_record, update_record or delete_record whose input is
\* valid issues exactly one transport call, the batched request with all the
\* input records in input order; a non-success response makes it raise
\* without a second call, a success makes it return the response payload.
C9_SingleShotWrites ==
    (op \in {"add", "update", "delete"} /\ (op = "add" \/ ~LacksRecordId(args))) =>
        /\ Len(calls) = 1
        /\ Len(resps) = 1
        /\ calls[1].api = (CASE op = "add"    -> "batch_create"
                             [] op = "update" -> "batch_update"
                             [] op = "delete" -> "batch_delete")
        /\ Len(calls[1].records) = Len(args)
        /\ \A i \in 1..Len(args) :
              CASE op = "add"    ->
                      [calls[1].records[i].fields EXCEPT !.display = args[i].display]
                         = args[i]
                [] op = "update" ->
                      /\ [calls[1].records[i].fields
                            EXCEPT !.display = args[i].fields.display] = args[i].fields
                      /\ calls[1].records[i].record_id = args[i].record_id
                [] op = "delete" ->
                      calls[1].records[i] = args[i].record_id
        /\ resps[1].success => outcome = Ok(Marshal(resps[1].data))
        /\ ~resps[1].success => outcome = Raise("Exception")
        /\ pc = "idle"

C9_Witness ==
    /\ op = "delete"
    /\ Len(args) = 2
    /\ ~LacksRecordId(args)
    /\ args[1].fields.app_id # args[2].fields.app_id
    /\ ~resps[1].success
    /\ Len(calls) = 1
    /\ outcome = Raise("Exception")

\* C10: the first list request of a query carries no token; every later one
\* carries the token of the response just before it and is sent only once that
\* response is in; the loop ends at the first successful response without a
\* token (or with an empty one) and goes on after every response with one.
C10_TokenChain ==
    op = "query" =>
        /\ calls # <<>> => "page_token" \notin DOMAIN calls[1]
        /\ \A i \in 2..Len(calls) :
              /\ resps[i - 1].success
              /\ Truthy(resps[i - 1].page_token)
              /\ "page_token" \in DOMAIN calls[i]
              /\ calls[i].page_token = resps[i - 1].page_token
        /\ Len(calls) = Len(resps) + (IF pc = "wait" THEN 1 ELSE 0)
        /\ (pc = "idle" /\ resps # <<>>) =>
              \/ ~resps[Len(resps)].success
              \/ /\ ~Truthy(resps[Len(resps)].page_token)
                 /\ outcome.kind = "return"
        /\ (pc = "idle" /\ outcome.kind = "return") => resps # <<>>
        /\ (pc = "build" /\ resps # <<>>) =>
              /\ resps[Len(resps)].success
              /\ Truthy(resps[Len(resps)].page_token)
              /\ page_token = resps[Len(resps)].page_token

C10_Witness ==
    /\ QueryReturned
    /\ Len(calls) = 3
    /\ calls[3].page_token = resps[2].page_token
    /\ resps[3].page_token = ""

====
